---- MODULE Spec2Model ----
(***************************************************************************)
(* Model of constexpr_format (src/constexpr_format.hpp): the printf-style  *)
(* pattern parser (parse_format_impl / parse_spec / parse_spec_dispatch),  *)
(* the argument checker (check_format / check_format_conversion) and the   *)
(* renderer (format_impl and the Format<T> formatters).                    *)
(*                                                                         *)
(* The library runs at compile time; a failed static_assert, a failed      *)
(* overload resolution or a read outside an array in a constant expression *)
(* ends the evaluation, which the model records as pc = "error".           *)
(* Characters are one-character strings; a string_view is an offset into   *)
(* the viewed character array together with a length.                      *)
(***************************************************************************)
EXTENDS Integers, Sequences, FiniteSets, TLC

VARIABLES pattern, args, pc, f, currentParam, stack, result, reads, pastRead, out, err, errAt

vars == <<pattern, args, pc, f, currentParam, stack, result, reads, pastRead, out, err, errAt>>

----------------------------------------------------------------------------
(* Bounds of the model *)

MaxLen == 4
MaxArgs == 2
IntBits == 8

RECURSIVE Pow2(_)
Pow2(k) == IF k = 0 THEN 1 ELSE 2 * Pow2(k - 1)
IntMin == 0 - Pow2(IntBits - 1)
IntMax == Pow2(IntBits - 1) - 1

Chars == {"%", "d", "s", "z"}
NUL == "NUL"
OutOfBounds == "out-of-bounds"
PastChars == Chars \cup {NUL, OutOfBounds}

Patterns == UNION {[1..k -> Chars] : k \in 0..MaxLen}

Arg(t, n, s) == [type |-> t, n |-> n, s |-> s]
ArgVals == {Arg("int", 0 - 17, <<>>), Arg("unsigned", 3, <<>>),
            Arg("string_view", 0, <<"a", "%">>), Arg("const char*", 0, <<"a">>)}
ArgLists == UNION {[1..k -> ArgVals] : k \in 0..MaxArgs}
IntArgLists == {<<Arg("int", n, <<>>)>> : n \in IntMin..IntMax}

ExamplePattern == <<"H","e","l","l","o"," ","%","%","%","s","%","%",","," ","t","h","i","s"," ",
                    "i","s"," ","n","u","m","b","e","r"," ","%","d"," ","a","n","d"," ","%","d">>
ExampleArgs == <<Arg("string_view", 0, <<"U","S","E","R">>), Arg("int", 1, <<>>), Arg("int", 5, <<>>)>>
ExampleOutput == <<"H","e","l","l","o"," ","%","U","S","E","R","%",","," ","t","h","i","s"," ",
                   "i","s"," ","n","u","m","b","e","r"," ","1"," ","a","n","d"," ","5">>

Min(S) == CHOOSE x \in S : \A y \in S : x <= y

----------------------------------------------------------------------------
(* util::string_view over the array held in `pattern` *)

string_view(data, n) == [data |-> data, n |-> n]

size(s) == s.n

\* operator[]: data[i], no comparison with n.  An index inside the viewed
\* array yields its character; the position right after the array yields
\* whatever lies there (`past`).
Index(s, i, past) == IF s.data + i < Len(pattern) THEN pattern[s.data + i + 1] ELSE past

find(s, c) ==
    LET hits == {i \in 0..(s.n - 1) : pattern[s.data + i + 1] = c}
    IN IF hits = {} THEN s.n ELSE Min(hits)

prefix(s, len) == IF len >= s.n THEN s ELSE string_view(s.data, len)

\* variant: a length reaching the end leaves the view as it is
remove_prefix_keep(s, len) ==
    IF len >= s.n THEN s ELSE string_view(s.data + len, s.n - len)

remove_prefix(s, len) ==
    IF len >= s.n THEN string_view(s.data, 0) ELSE string_view(s.data + len, s.n - len)

view_to_static(s) == [i \in 1..s.n |-> pattern[s.data + i]]

prepend(t, a) == <<t>> \o a

----------------------------------------------------------------------------
(* format_to_typecheck *)

Literal(c) == [kind |-> "Literal", arg |-> c]
TypeCheck(p) == [kind |-> "TypeCheck", arg |-> p]
Id(t) == [kind |-> "Id", arg |-> t]
NoOverload == [kind |-> "none", arg |-> "none"]

is_integral(U) == U \in {"int", "unsigned"}

\* variant: a code without overload falls back to Any
to_type_any(c) ==
    CASE c = "d" -> TypeCheck("is_integral")
      [] c = "s" -> Id("string_view")
      [] OTHER -> [kind |-> "Any", arg |-> "Any"]

to_type(c) ==
    CASE c = "d" -> TypeCheck("is_integral")
      [] c = "s" -> Id("string_view")
      [] OTHER -> NoOverload

\* variant: Id<T>::check does not compare the types
check_id_any(T, U) ==
    CASE T.kind = "TypeCheck" -> is_integral(U)
      [] OTHER -> TRUE

check(T, U) ==
    CASE T.kind = "Id" -> U = T.arg
      [] T.kind = "TypeCheck" -> is_integral(U)
      [] OTHER -> TRUE

----------------------------------------------------------------------------
(* format_parser *)

find_first(s) == find(s, "%")

FormatSpec(T, ParamNum) == [type |-> T, num |-> ParamNum]

NoSpec == FormatSpec(NoOverload, 0 - 1)

MkSpec(ok, e, spec, suffix, next_index) ==
    [ok |-> ok, err |-> e, spec |-> spec, suffix |-> suffix, next_index |-> next_index]

NoMatchingToType == "no matching function for call to to_type"
SubscriptOutside == "array subscript value is outside the bounds of array"

parse_spec_dispatch(s, current, past) ==
    LET T == to_type(Index(s, 1, past))
    IN IF T = NoOverload
       THEN MkSpec(FALSE, NoMatchingToType, NoSpec, s, current)
       ELSE MkSpec(TRUE, "", FormatSpec(T, current), remove_prefix(s, 2), current + 1)

\* variant: the repeated special character advances the parameter counter
parse_spec_counting(s, current, past) ==
    IF Index(s, 1, past) = OutOfBounds
    THEN MkSpec(FALSE, SubscriptOutside, NoSpec, s, current)
    ELSE IF Index(s, 0, past) = Index(s, 1, past)
         THEN MkSpec(TRUE, "", FormatSpec(Literal(Index(s, 0, past)), 0 - 1),
                     remove_prefix(s, 2), current + 1)
         ELSE parse_spec_dispatch(s, current, past)

parse_spec(s, current, past) ==
    IF Index(s, 1, past) = OutOfBounds
    THEN MkSpec(FALSE, SubscriptOutside, NoSpec, s, current)
    ELSE IF Index(s, 0, past) = Index(s, 1, past)
         THEN MkSpec(TRUE, "", FormatSpec(Literal(Index(s, 0, past)), 0 - 1),
                     remove_prefix(s, 2), current)
         ELSE parse_spec_dispatch(s, current, past)

FormatString(strings, specs) == [strings |-> strings, specs |-> specs]

NoFormatString == FormatString(<<>>, <<>>)

\* the indices of the slice that one level of parse_format_impl reads:
\* find() up to the delimiter, then parse_spec at 0 and 1 of the rest
FindReads(s) == {[i |-> i, n |-> s.n] : i \in {j \in 0..(s.n - 1) : j <= find_first(s)}}
SpecReads(s) == {[i |-> 0, n |-> s.n], [i |-> 1, n |-> s.n]}

----------------------------------------------------------------------------
(* Format<T>: the per-type formatters *)

\* C++ integer division truncates toward zero and % takes the dividend's sign
div(a, b) == IF a >= 0 THEN a \div b ELSE 0 - ((0 - a) \div b)
mod(a, b) == a - b * div(a, b)
abs(x) == IF x < 0 THEN 0 - x ELSE x

DigitChars == <<"0", "1", "2", "3", "4", "5", "6", "7", "8", "9">>

\* variant: the recursion stops on N < 10 instead of N/10 == 0
RECURSIVE get_string_rec_lt10(_)
get_string_rec_lt10(N) ==
    LET current == <<DigitChars[abs(mod(N, 10)) + 1]>>
    IN IF N < 10 THEN current ELSE get_string_rec_lt10(div(N, 10)) \o current

RECURSIVE get_string_rec(_)
get_string_rec(N) ==
    LET current == <<DigitChars[abs(mod(N, 10)) + 1]>>
    IN IF div(N, 10) = 0 THEN current ELSE get_string_rec(div(N, 10)) \o current

get_string(N) ==
    IF N = 0
    THEN <<"0">>
    ELSE LET abs_num == get_string_rec(N)
         IN IF N < 0 THEN <<"-">> \o abs_num ELSE abs_num

Rendered(ok, string) == [ok |-> ok, string |-> string]

AbsAmbiguous == "call of overloaded abs is ambiguous"

\* Format<std::decay_t<decltype(val)>>::get_string for an argument value.
\* For an unsigned type of rank int or above, N%10 is unsigned and
\* std::abs(N%10) in get_string_rec does not resolve; N == 0 returns before
\* get_string_rec is instantiated.
Format(val) ==
    CASE val.type = "int" -> Rendered(TRUE, get_string(val.n))
      [] val.type = "unsigned" ->
            IF val.n = 0 THEN Rendered(TRUE, <<"0">>) ELSE Rendered(FALSE, <<>>)
      [] OTHER -> Rendered(TRUE, val.s)

getString(format, as) ==
    IF format.num = 0 - 1
    THEN Rendered(TRUE, <<format.type.arg>>)
    ELSE Format(as[format.num + 1])

----------------------------------------------------------------------------
(* format_string::detail *)

TooMany == "Too many arguments for format"
TooFew == "Too few arguments for format"
Mismatched == "Mismatched format types"

check_format_conversion(spec, t) ==
    IF spec.num # 0 - 1 THEN check(spec.type, t[spec.num + 1].type) ELSE TRUE

Checked(ok, msg, at) == [ok |-> ok, msg |-> msg, at |-> at]

\* variant: num_args counts every specifier, escapes included
check_format_all(F, t) ==
    LET num_args == Len(F.specs)
        tuple_size == Len(t)
        bad == {F.specs[i].num : i \in {j \in 1..Len(F.specs) : ~check_format_conversion(F.specs[j], t)}}
    IN IF tuple_size > num_args THEN Checked(FALSE, TooMany, {})
       ELSE IF tuple_size < num_args THEN Checked(FALSE, TooFew, {})
       ELSE IF bad # {} THEN Checked(FALSE, Mismatched, bad)
       ELSE Checked(TRUE, "", {})

check_format(F, t) ==
    LET num_args == Cardinality({i \in 1..Len(F.specs) : F.specs[i].num # 0 - 1})
        tuple_size == Len(t)
        bad == {F.specs[i].num : i \in {j \in 1..Len(F.specs) : ~check_format_conversion(F.specs[j], t)}}
    IN IF tuple_size > num_args THEN Checked(FALSE, TooMany, {})
       ELSE IF tuple_size < num_args THEN Checked(FALSE, TooFew, {})
       ELSE IF bad # {} THEN Checked(FALSE, Mismatched, bad)
       ELSE Checked(TRUE, "", {})

\* ((getString(fs) + view_to_static(prefixes)) + ... + static_string<0>{})
RECURSIVE zip(_, _, _, _)
zip(specs, strings, as, i) ==
    IF i > Len(specs)
    THEN Rendered(TRUE, <<>>)
    ELSE LET g == getString(specs[i], as)
             rest == zip(specs, strings, as, i + 1)
         IN Rendered(g.ok /\ rest.ok, g.string \o view_to_static(strings[i]) \o rest.string)

format_impl(F, as) ==
    LET c == check_format(F, as)
    IN IF c.ok
       THEN LET init == view_to_static(F.strings[1])
                intermediate_strings == Tail(F.strings)
                r == zip(F.specs, intermediate_strings, as, 1)
            IN IF r.ok
               THEN [ok |-> TRUE, string |-> init \o r.string, msg |-> "", at |-> {}]
               ELSE [ok |-> FALSE, string |-> <<>>, msg |-> AbsAmbiguous, at |-> {}]
       ELSE [ok |-> FALSE, string |-> <<>>, msg |-> c.msg, at |-> c.at]

----------------------------------------------------------------------------
(* The state machine: format(pattern, args) *)

Frame(fv, cur, pre, spec) == [f |-> fv, currentParam |-> cur, prefix |-> pre, spec |-> spec]

Init ==
    /\ \/ pattern \in Patterns /\ args \in ArgLists
       \/ pattern = <<"%", "d">> /\ args \in IntArgLists
       \/ pattern = ExamplePattern /\ args = ExampleArgs
    /\ pc = "parse"
    /\ f = string_view(0, Len(pattern))
    /\ currentParam = 0
    /\ stack = <<>>
    /\ result = NoFormatString
    /\ reads = {}
    /\ pastRead = ""
    /\ out = <<>>
    /\ err = ""
    /\ errAt = {}

\* parse_format_impl, no delimiter in the slice: FormatString<>{{f},{}}
ParseBase ==
    /\ pc = "parse"
    /\ size(f) = find_first(f)
    /\ result' = FormatString(<<f>>, <<>>)
    /\ reads' = FindReads(f)
    /\ pc' = "return"
    /\ UNCHANGED <<pattern, args, f, currentParam, stack, pastRead, out, err, errAt>>

\* parse_format_impl, delimiter found: parse_spec on the rest, then the
\* recursive call on spec.suffix with spec.next_index
ParseSpec ==
    /\ pc = "parse"
    /\ size(f) # find_first(f)
    /\ \E past \in PastChars :
        LET format_index == find_first(f)
            pre == prefix(f, format_index)
            spec_suffix == remove_prefix(f, format_index)
            spec == parse_spec(spec_suffix, currentParam, past)
        IN /\ reads' = FindReads(f) \cup SpecReads(spec_suffix)
           /\ pastRead' = IF spec_suffix.data + 1 < Len(pattern) THEN pastRead ELSE past
           /\ IF spec.ok
              THEN /\ stack' = <<Frame(f, currentParam, pre, spec.spec)>> \o stack
                   /\ f' = spec.suffix
                   /\ currentParam' = spec.next_index
                   /\ UNCHANGED <<pc, err>>
              ELSE /\ pc' = "error"
                   /\ err' = spec.err
                   /\ UNCHANGED <<stack, f, currentParam>>
    /\ UNCHANGED <<pattern, args, result, out, errAt>>

\* parse_format_impl, after the recursive call: prepend prefix and spec
ParseReturn ==
    /\ pc = "return"
    /\ stack # <<>>
    /\ LET fr == Head(stack)
       IN /\ result' = FormatString(prepend(fr.prefix, result.strings),
                                    prepend(fr.spec, result.specs))
          /\ f' = fr.f
          /\ currentParam' = fr.currentParam
    /\ stack' = Tail(stack)
    /\ reads' = {}
    /\ UNCHANGED <<pattern, args, pc, pastRead, out, err, errAt>>

\* format: format_impl on the parsed FormatString
FormatImpl ==
    /\ pc = "return"
    /\ stack = <<>>
    /\ LET r == format_impl(result, args)
       IN /\ pc' = IF r.ok THEN "done" ELSE "error"
          /\ out' = r.string
          /\ err' = r.msg
          /\ errAt' = r.at
    /\ reads' = {}
    /\ UNCHANGED <<pattern, args, f, currentParam, stack, result, pastRead>>

Next == ParseBase \/ ParseSpec \/ ParseReturn \/ FormatImpl

Spec == Init /\ [][Next]_vars

----------------------------------------------------------------------------
(* Reference notions used by the properties *)

ParseErrors == {NoMatchingToType, SubscriptOutside}
CountErrors == {TooMany, TooFew}

\* format_impl has run on a parsed pattern
Validated == pc \in {"done", "error"} /\ err \notin ParseErrors

\* check_format accepted the arguments
PassedValidation == Validated /\ err \notin (CountErrors \cup {Mismatched})

Consuming(F) == {i \in 1..Len(F.specs) : F.specs[i].type.kind # "Literal"}

\* the pattern is literal text, %%, %d and %s only
RECURSIVE WellFormedFrom(_, _)
WellFormedFrom(p, i) ==
    IF i > Len(p) THEN TRUE
    ELSE IF p[i] # "%" THEN WellFormedFrom(p, i + 1)
    ELSE IF i = Len(p) THEN FALSE
    ELSE p[i + 1] \in {"%", "d", "s"} /\ WellFormedFrom(p, i + 2)

WellFormed(p) == WellFormedFrom(p, 1)

\* a % followed by a character that is neither % nor d nor s
RECURSIVE BadPairFrom(_, _)
BadPairFrom(p, i) ==
    IF i > Len(p) THEN FALSE
    ELSE IF p[i] # "%" THEN BadPairFrom(p, i + 1)
    ELSE IF i = Len(p) THEN FALSE
    ELSE IF p[i + 1] \in {"%", "d", "s"} THEN BadPairFrom(p, i + 2)
    ELSE TRUE

HasBadPair(p) == BadPairFrom(p, 1)

\* decimal text of an integer, from its magnitude
RECURSIVE RefDigits(_)
RefDigits(m) ==
    IF m < 10 THEN <<DigitChars[m + 1]>> ELSE RefDigits(m \div 10) \o <<DigitChars[(m % 10) + 1]>>

RefDecimal(n) == IF n < 0 THEN <<"-">> \o RefDigits(0 - n) ELSE RefDigits(n)

\* value of a digit string
DigitVal(c) == CHOOSE d \in 0..9 : DigitChars[d + 1] = c

RECURSIVE Val(_)
Val(ds) ==
    IF ds = <<>> THEN 0 ELSE 10 * Val(SubSeq(ds, 1, Len(ds) - 1)) + DigitVal(ds[Len(ds)])

IsDigit(c) == \E d \in 0..9 : DigitChars[d + 1] = c

Canonical(n, str) ==
    IF n = 0
    THEN str = <<"0">>
    ELSE LET neg == str # <<>> /\ str[1] = "-"
             mag == IF neg THEN Tail(str) ELSE str
         IN /\ neg <=> (n < 0)
            /\ mag # <<>>
            /\ \A i \in 1..Len(mag) : IsDigit(mag[i])
            /\ mag[1] # "0"
            /\ Val(mag) = (IF n < 0 THEN 0 - n ELSE n)

\* the text a well-formed pattern stands for, read left to right
RECURSIVE Expected(_, _, _, _)
Expected(p, as, i, k) ==
    IF i > Len(p) THEN <<>>
    ELSE IF p[i] # "%" THEN <<p[i]>> \o Expected(p, as, i + 1, k)
    ELSE IF p[i + 1] = "%" THEN <<"%">> \o Expected(p, as, i + 2, k)
    ELSE IF p[i + 1] = "d" THEN RefDecimal(as[k + 1].n) \o Expected(p, as, i + 2, k + 1)
    ELSE as[k + 1].s \o Expected(p, as, i + 2, k + 1)

\* the two characters of the pattern a specifier stands for
Token(spec) ==
    CASE spec.type.kind = "Literal" -> <<spec.type.arg, spec.type.arg>>
      [] spec.type.kind = "TypeCheck" -> <<"%", "d">>
      [] OTHER -> <<"%", "s">>

RECURSIVE Reassemble(_, _)
Reassemble(F, i) ==
    IF i > Len(F.specs)
    THEN <<>>
    ELSE Token(F.specs[i]) \o view_to_static(F.strings[i + 1]) \o Reassemble(F, i + 1)

RefAccepts(spec, U) ==
    /\ spec.type.kind = "TypeCheck" => U \in {"int", "unsigned"}
    /\ spec.type.kind = "Id" => U = "string_view"

----------------------------------------------------------------------------
(* Properties *)

\* the output is the pattern's text with each specifier replaced, in order
RendersAsSpecified ==
    /\ out = Expected(pattern, args, 1, 0)
    /\ ("%" \notin {pattern[i] : i \in 1..Len(pattern)}) => out = pattern
    /\ (pattern = ExamplePattern /\ args = ExampleArgs) => out = ExampleOutput

\* C1: for every pattern of literal text, %%, %d and %s and every argument
\* list that passes validation, format returns literalSpans[0] followed by
\* the rendering of each specifier and the literal span after it, in source
\* order; a pattern without % renders to itself and the example renders to
\* "Hello %USER%, this is number 1 and 5".
C1_FormatReturnsInterleaving ==
    (WellFormed(pattern) /\ PassedValidation) => (pc = "done" /\ RendersAsSpecified)

\* C2: validation fails on count exactly when the number K of specifiers
\* with a positional index differs from the number of arguments, too many
\* and too few are reported distinctly, and escapes are not counted in K.
C2_CountMismatch ==
    Validated =>
        LET K == Cardinality(Consuming(result))
        IN /\ Len(args) > K => (pc = "error" /\ err = TooMany)
           /\ Len(args) < K => (pc = "error" /\ err = TooFew)
           /\ Len(args) = K => err \notin CountErrors
           /\ TooMany # TooFew

C2_Witness ==
    /\ WellFormed(pattern)
    /\ pc = "error"
    /\ err = TooMany
    /\ Cardinality(Consuming(result)) > 0
    /\ Len(result.specs) > Cardinality(Consuming(result))

\* C3: when the argument count matches, validation succeeds iff every
\* specifier with positional index p is bound to an argument of a type it
\* accepts (%d: the integral types, %s: the string-slice type); a mismatch
\* is attributed to the positional index p.
C3_TypeMismatch ==
    (Validated /\ Len(args) = Cardinality(Consuming(result))) =>
        LET badp == {result.specs[i].num : i \in
                        {j \in Consuming(result) :
                            ~RefAccepts(result.specs[j], args[result.specs[j].num + 1].type)}}
        IN /\ (pc = "error" /\ err = Mismatched) <=> (badp # {})
           /\ badp = {} => PassedValidation
           /\ errAt = badp

C3_Witness ==
    /\ WellFormed(pattern)
    /\ pc = "error"
    /\ err = Mismatched
    /\ \E i \in 1..Len(result.specs) :
          /\ result.specs[i].num \in errAt
          /\ result.specs[i].num # i - 1

\* C4: a pattern with a % followed by a character that is neither % nor a
\* registered code fails to parse as an unrecognized conversion code,
\* wherever the pair occurs, and no Pattern is produced.
C4_UnrecognizedCode ==
    HasBadPair(pattern) =>
        /\ result = NoFormatString
        /\ pc \in {"parse", "error"}
        /\ pc = "error" => err = NoMatchingToType

C4_Witness ==
    /\ pc = "error"
    /\ err = NoMatchingToType
    /\ HasBadPair(pattern)
    /\ stack # <<>>
    /\ result = NoFormatString

\* C5: rendering never fails once validation has passed, also for a %d
\* bound to an integral argument of any width or signedness.
C5_RenderNeverFails == PassedValidation => pc = "done"

IsIntPattern == pattern = <<"%", "d">> /\ Len(args) = 1 /\ args[1].type = "int"

\* C6: the integer renderer maps every signed integer of the range to its
\* canonical decimal text: "0" for 0, otherwise the digits of |N| most
\* significant first without leading zero, with a single "-" exactly when
\* N < 0 (also for the most negative value); 0, -7, 120 give "0", "-7", "120".
C6_CanonicalDecimal ==
    IsIntPattern =>
        /\ pc # "error"
        /\ pc = "done" =>
              /\ Canonical(args[1].n, out)
              /\ args[1].n = 0 => out = <<"0">>
              /\ args[1].n = 0 - 7 => out = <<"-", "7">>
              /\ args[1].n = 120 => out = <<"1", "2", "0">>

C6_Witness == IsIntPattern /\ pc = "done" /\ args[1].n = IntMin /\ Len(out) > 3

\* C7: every Pattern the parser returns, at every level of its recursion,
\* has one more literal span than specifiers, and the spans with the
\* two-character tokens between them cover the parsed slice exactly.
C7_SpansCoverPattern ==
    (pc = "return" \/ pc = "done") =>
        /\ Len(result.strings) = Len(result.specs) + 1
        /\ view_to_static(result.strings[1]) \o Reassemble(result, 1) = view_to_static(f)

\* C8: the positional indices of the argument-consuming specifiers of a
\* parsed Pattern are consecutive from the level's counter (0 at the top),
\* left to right; an escape carries -1 and does not advance the counter.
C8_PositionalIndices ==
    (pc = "return" \/ Validated) =>
        \A i \in 1..Len(result.specs) :
            IF result.specs[i].type.kind = "Literal"
            THEN result.specs[i].num = 0 - 1
            ELSE result.specs[i].num =
                    currentParam + Cardinality({j \in Consuming(result) : j < i})

C8_Witness ==
    /\ pc = "return"
    /\ stack = <<>>
    /\ Len(result.specs) = 5
    /\ result.specs[1].num = 0 - 1
    /\ result.specs[2].num = 0
    /\ result.specs[3].num = 0 - 1
    /\ result.specs[4].num = 1
    /\ result.specs[5].num = 2

\* C9: each parser step that finds a delimiter continues on a strictly
\* shorter slice (also when the delimiter is the last character) or fails,
\* and the step that finds no delimiter ends the recursion.
C9_ParserShrinks ==
    [][pc = "parse" =>
          IF size(f) # find_first(f)
          THEN pc' = "error" \/ (pc' = "parse" /\ size(f') < size(f) /\ Len(stack') = Len(stack) + 1)
          ELSE pc' = "return" /\ Len(stack') = Len(stack)]_vars

C9_Witness ==
    /\ pc = "parse"
    /\ stack # <<>>
    /\ size(f) = 0
    /\ find_first(Head(stack).f) = size(Head(stack).f) - 1

\* C10: every index the parser reads from a slice is smaller than the
\* slice's length; with % as the last character the position after it is
\* not read.
C10_ReadsInsideSlice == \A r \in reads : r.i < r.n

====
